---- MODULE Spec2Model ----
\* A model of tmuxp.server.Server (src/tmuxp/server.py): the in-memory mirror
\* of a tmux server's sessions, windows, panes and clients, and the session
\* lifecycle operations.
\*
\* Text is modelled as a sequence of one-character strings, so that building a
\* format string, tmux expanding it, and str.split('\t') are real conversions.
\* A dict is a function whose domain is its key set.  A client dict carries an
\* object identity (id) next to its contents (d), because list_clients patches
\* client dicts in place.
\*
\* Names that server.py uses without importing them (CLIENT_FORMATS,
\* TmuxSessionExists) and the attribute _clients, which Server.__init__ never
\* creates, are taken to be bound to the objects their names say: the format
\* catalogue's client list, the session-exists error and an empty list.
EXTENDS Integers, Sequences, FiniteSets, TLC

VARIABLES
    socket_name, socket_path, config_file,  \* Server's connection settings
    _sessions, _windows, _panes, _clients,  \* the four mirrored collections
    TMUX,       \* os.environ['TMUX']
    listed,     \* per kind, the entities of the latest listing tmux returned
    last        \* the latest call: its arguments, subcommands and outcome

conn == <<socket_name, socket_path, config_file>>

vars == <<conn, _sessions, _windows, _panes, _clients, TMUX, listed, last>>

\* ---------------------------------------------------------------- bounds

\* The most rows a listing of sessions, of windows or of panes holds.
MaxRows == 1

\* The most rows a listing of clients holds.
MaxClientRows == 2

\* The longest stdout line a parse is tried on.
MaxLineLen == 6

\* ------------------------------------------------------------------ text

TAB == "\t"

Range(s) == {s[i] : i \in DOMAIN s}

Min(a, b) == IF a < b THEN a ELSE b

\* The sequences over S of length at most n.
SeqsUpTo(S, n) == UNION {[1..k -> S] : k \in 0..n}

RECURSIVE Concat(_)
\* ''.join(parts)
Concat(parts) ==
    IF parts = <<>> THEN <<>> ELSE Head(parts) \o Concat(Tail(parts))

RECURSIVE Join(_, _)
\* sep.join(parts)
Join(sep, parts) ==
    IF parts = <<>> THEN <<>>
    ELSE IF Len(parts) = 1 THEN parts[1]
    ELSE parts[1] \o sep \o Join(sep, Tail(parts))

RECURSIVE SplitSkippingEmpty(_)
\* line.split(): the tokens between the tabs, empty ones left out.
SplitSkippingEmpty(line) ==
    IF line = <<>> THEN <<>>
    ELSE IF \A i \in DOMAIN line : line[i] # TAB THEN <<line>>
    ELSE LET i == CHOOSE j \in DOMAIN line :
                      line[j] = TAB /\ \A k \in 1..(j - 1) : line[k] # TAB
         IN  (IF i = 1 THEN <<>> ELSE <<SubSeq(line, 1, i - 1)>>)
                 \o SplitSkippingEmpty(SubSeq(line, i + 1, Len(line)))

RECURSIVE Split(_)
\* line.split('\t'): the tokens between the tabs, empty ones included.
Split(line) ==
    IF \A i \in DOMAIN line : line[i] # TAB THEN <<line>>
    ELSE LET i == CHOOSE j \in DOMAIN line :
                      line[j] = TAB /\ \A k \in 1..(j - 1) : line[k] # TAB
         IN  <<SubSeq(line, 1, i - 1)>> \o Split(SubSeq(line, i + 1, Len(line)))

\* dict(zip(fields, tokens)): positional pairing cut at the shorter of the
\* two; a repeated key keeps its last value.
DictZip(fields, tokens) ==
    LET n == Min(Len(fields), Len(tokens))
    IN  [f \in {fields[i] : i \in 1..n} |->
            tokens[CHOOSE i \in 1..n :
                      fields[i] = f /\ \A j \in (i + 1)..n : fields[j] # f]]

\* DropEmpty without the filter.
DropNothing(d) == d

\* dict((k, v) for k, v in d.iteritems() if v)
DropEmpty(d) == [k \in {f \in DOMAIN d : d[f] # <<>>} |-> d[k]]

\* The two comprehensions every refresh applies to the stdout lines.
ParseRows(lines, fields) ==
    [i \in DOMAIN lines |-> DropEmpty(DictZip(fields, Split(lines[i])))]

\* ------------------------------------------------------- format catalogue

SESSION_FORMATS == <<"session_name", "session_id">>

WINDOW_FORMATS == <<"window_id">>

PANE_FORMATS == <<"pane_id">>

CLIENT_FORMATS == <<"client_tty", "client_width">>

\* wformats of _list_windows and _update_windows
WFormats == <<"session_name", "session_id">> \o WINDOW_FORMATS

\* pformats of _list_panes and _update_panes
PFormats ==
    <<"session_name", "session_id", "window_index", "window_id">> \o PANE_FORMATS

\* A format string is a sequence of items: the field template #{f} is
\* <<"#", f>> and a literal character c is <<"c", c>>.
Template(f) == <<"#", f>>

Literal(c) == <<"c", c>>

\* '\t'.join(['#{%s}' % f for f in fields])
TabJoinedFormat(fields) ==
    Join(<<Literal(TAB)>>, [i \in DOMAIN fields |-> <<Template(fields[i])>>])

\* ''.join(['#{%s}\t' % f for f in pformats])
TabTerminatedFormat(fields) ==
    Concat([i \in DOMAIN fields |-> <<Template(fields[i]), Literal(TAB)>>])

\* ------------------------------------------------------ the tmux command

\* None, for an unset setting, an unset environment variable, no value.
None == "None"

\* Python's truth test of a string-or-None value.
Truthy(v) == v # None /\ v # ""

\* One command-line argument: a bare word, or an option with its value
\* formatted behind it ('-t%s' % target).
Word(w) == [opt |-> "", val |-> w]

Opt(o, v) == [opt |-> o, val |-> v]

Flag(o) == [opt |-> o, val |-> ""]

\* args.insert(0, x)
Insert0(args, x) == <<x>> \o args

\* Server.tmux with the three insertions in the opposite order.
tmuxInsertingBackwards(args) ==
    LET a1 == IF Truthy(config_file)
              THEN Insert0(args, Opt("-f", config_file)) ELSE args
        a2 == IF Truthy(socket_path)
              THEN Insert0(a1, Opt("-S", socket_path)) ELSE a1
        a3 == IF Truthy(socket_name)
              THEN Insert0(a2, Opt("-L", socket_name)) ELSE a2
    IN  a3

\* Server.tmux: the connection flags go in front of the subcommand.
tmux(args) ==
    LET a1 == IF Truthy(socket_name)
              THEN Insert0(args, Opt("-L", socket_name)) ELSE args
        a2 == IF Truthy(socket_path)
              THEN Insert0(a1, Opt("-S", socket_path)) ELSE a1
        a3 == IF Truthy(config_file)
              THEN Insert0(a2, Opt("-f", config_file)) ELSE a2
    IN  a3

\* The subcommand of an argument list: its first bare word.
Subcommand(argv) ==
    LET i == CHOOSE j \in DOMAIN argv :
                 argv[j].opt = "" /\ \A k \in 1..(j - 1) : argv[k].opt # ""
    IN  argv[i].val

OptVal(argv, o) == argv[CHOOSE i \in DOMAIN argv : argv[i].opt = o].val

\* ------------------------------------------------- the tmux server's side

\* What the tmux server may hold: each entity gives every field a text,
\* possibly the empty one.
SessionEntities ==
    { [session_name |-> <<"a", "b">>, session_id |-> <<"$", "1">>],
      [session_name |-> <<>>,         session_id |-> <<"$", "2">>] }

WindowEntities ==
    { [session_name |-> <<"a", "b">>, session_id |-> <<"$", "1">>,
       window_id |-> <<"@", "1">>],
      [session_name |-> <<"a", "b">>, session_id |-> <<>>,
       window_id |-> <<"@", "2">>] }

PaneEntities ==
    { [session_name |-> <<"a", "b">>, session_id |-> <<"$", "1">>,
       window_index |-> <<"0">>, window_id |-> <<"@", "1">>,
       pane_id |-> <<"%", "1">>],
      [session_name |-> <<"a", "b">>, session_id |-> <<"$", "1">>,
       window_index |-> <<>>, window_id |-> <<"@", "1">>,
       pane_id |-> <<"%", "2">>] }

Ttys == {<<"t", "1">>, <<"t", "2">>}

Widths == {<<>>, <<"8", "0">>, <<"9">>}

ClientEntities == [client_tty : Ttys, client_width : Widths]

\* The texts a subcommand may leave on stderr; the empty one is none.
Stderrs == {"", "no server running"}

\* tmux expanding a format string for one entity: each #{f} becomes the
\* entity's text for f (nothing when it has none), the rest is copied.
Expand(fmt, e) ==
    Concat([i \in DOMAIN fmt |->
               IF fmt[i][1] = "#"
               THEN IF fmt[i][2] \in DOMAIN e THEN e[fmt[i][2]] ELSE <<>>
               ELSE <<fmt[i][2]>>])

\* The process gateway's two outcomes: it raises, or it returns the captured
\* output (ents: the entities the server printed, one row each).
Raised == [raised |-> TRUE, ents |-> <<>>, stdout |-> <<>>, stderr |-> ""]

Returned(ents, out, err) ==
    [raised |-> FALSE, ents |-> ents, stdout |-> out, stderr |-> err]

\* One row per entity, in the format the caller asked for with -F.
Listing(fmt, ents) == [i \in DOMAIN ents |-> Expand(fmt, ents[i])]

\* The format tmux lists in when the caller gives none: the entity's name
\* and a colon open the row.
DefaultFormat(cmd) ==
    IF cmd = "list-clients" THEN <<Template("client_tty"), Literal(":")>>
    ELSE <<Template("session_name"), Literal(":")>>

FormatOf(argv) ==
    IF \E i \in DOMAIN argv : argv[i].opt = "-F" THEN OptVal(argv, "-F")
    ELSE DefaultFormat(Subcommand(argv))

ListResponses(argv, polls) ==
    {Returned(es, Listing(FormatOf(argv), es), e) :
        es \in polls, e \in Stderrs} \cup {Raised}

SessionPolls == SeqsUpTo(SessionEntities, MaxRows)

WindowPolls == SeqsUpTo(WindowEntities, MaxRows)

PanePolls == SeqsUpTo(PaneEntities, MaxRows)

\* tmux lists each attached terminal once.
ClientPolls ==
    {p \in SeqsUpTo(ClientEntities, MaxClientRows) :
        \A i, j \in DOMAIN p : i # j => p[i].client_tty # p[j].client_tty}

\* new-session -P prints the one session it made, when it made one.
CreatedPolls == {p \in SessionPolls : Len(p) <= 1}

SessionNotFound ==
    <<"s", "e", "s", "s", "i", "o", "n", " ", "n", "o", "t", " ",
      "f", "o", "u", "n", "d">>

FailedToConnect ==
    <<"f", "a", "i", "l", "e", "d", " ", "t", "o", " ", "c", "o", "n", "n",
      "e", "c", "t", " ", "t", "o", " ", "s", "e", "r", "v", "e", "r">>

\* What tmux says of a missing session: the marker, then the session.
SessionNotFoundDev == SessionNotFound \o <<":", " ", "d", "e", "v">>

HasSessionStdouts ==
    {<<>>, <<SessionNotFound>>, <<FailedToConnect>>, <<SessionNotFoundDev>>}

\* What has-session may leave on stderr.
HasSessionStderrs == {"", "session not found: dev"}

\* The characters of a stderr text.
Chars(text) ==
    CASE text = "" -> <<>>
      [] text = "session not found: dev" -> SessionNotFoundDev
      [] OTHER ->
            <<"n", "o", " ", "s", "e", "r", "v", "e", "r", " ",
              "r", "u", "n", "n", "i", "n", "g">>

\* The process gateway (tmuxp.util.tmux): every response the tmux binary may
\* give to an argument list.
Execute(argv) ==
    LET cmd == Subcommand(argv)
    IN  CASE cmd = "list-sessions" -> ListResponses(argv, SessionPolls)
          [] cmd = "list-windows" -> ListResponses(argv, WindowPolls)
          [] cmd = "list-panes" -> ListResponses(argv, PanePolls)
          [] cmd = "list-clients" -> ListResponses(argv, ClientPolls)
          [] cmd = "new-session" -> ListResponses(argv, CreatedPolls)
          [] cmd = "has-session" ->
                {Returned(<<>>, out, e) :
                    out \in HasSessionStdouts, e \in HasSessionStderrs}
                    \cup {Raised}
          [] OTHER -> {Returned(<<>>, <<>>, e) : e \in Stderrs} \cup {Raised}

\* ------------------------------------------------------ the call record

\* One subcommand as it was issued and what came back on stderr.
Issued(argv, r) ==
    [cmd |-> Subcommand(argv), argv |-> argv, stderr |-> r.stderr,
     raised |-> r.raised]

\* The record of a call before it has done anything.  outcome is "ok" for a
\* normal return and the raised error's class otherwise; err is the text the
\* error carries; ret is what the call returned; pre is the collection a
\* refresh started from; out is the stdout a probe or new_session read and
\* ents the entities behind it; seen is TMUX as each subcommand of
\* new_session found it.
Call(op) ==
    [op |-> op, name |-> "", kill |-> FALSE, attach |-> FALSE, log |-> <<>>,
     exists |-> FALSE, outcome |-> "ok", err |-> "", ret |-> None,
     pre |-> <<>>, out |-> <<>>, ents |-> <<>>, seen |-> <<>>]

\* Python's True and False as a call returns them.
Bool(b) == IF b THEN "True" ELSE "False"

Cmds(log) == [i \in DOMAIN log |-> log[i].cmd]

\* ---------------------------------------------- sessions, windows, panes

\* ReplaceAll without the clearing: the new records pile up behind the old.
ReplaceAllKeeping(coll, new) == coll \o new

\* if coll: coll[:] = []  followed by  coll.extend(new)
ReplaceAll(coll, new) ==
    LET cleared == IF coll # <<>> THEN <<>> ELSE coll
    IN  cleared \o new

\* What a _list_* method hands back for a gateway response: the stdout
\* lines, or the error it raises.
ListResult(r) ==
    IF r.raised THEN [outcome |-> "GatewayError", err |-> "", stdout |-> <<>>]
    ELSE IF r.stderr # ""
    THEN [outcome |-> "Exception", err |-> r.stderr, stdout |-> <<>>]
    ELSE [outcome |-> "ok", err |-> "", stdout |-> r.stdout]

ListSessionsArgs ==
    <<Word("list-sessions"), Opt("-F", TabJoinedFormat(SESSION_FORMATS))>>

_list_sessions(r) == ListResult(r)

\* The session collection after _update_sessions, given the response to its
\* list-sessions.
_update_sessions(coll, r) ==
    IF _list_sessions(r).outcome # "ok" THEN coll
    ELSE ReplaceAll(coll, ParseRows(_list_sessions(r).stdout, SESSION_FORMATS))

ListWindowsArgs ==
    <<Word("list-windows"), Flag("-a"), Opt("-F", TabJoinedFormat(WFormats))>>

_list_windows(r) == ListResult(r)

_update_windows(coll, r) ==
    IF _list_windows(r).outcome # "ok" THEN coll
    ELSE ReplaceAll(coll, ParseRows(_list_windows(r).stdout, WFormats))

ListPanesArgs ==
    <<Word("list-panes"), Flag("-a"), Opt("-F", TabTerminatedFormat(PFormats))>>

_list_panes(r) == ListResult(r)

_update_panes(coll, r) ==
    IF _list_panes(r).outcome # "ok" THEN coll
    ELSE ReplaceAll(coll, ParseRows(_list_panes(r).stdout, PFormats))

\* A response as a method sees it that does not read its rows.
Unread(r) == [r EXCEPT !.ents = <<>>, !.stdout = <<>>]

\* A listing's response as _list_* sees it: the rows are read only when it
\* neither raised nor wrote to stderr.
ListSeen(r) == IF ListResult(r).outcome = "ok" THEN r ELSE Unread(r)

\* The latest listing of a kind is the latest one a _list_* method returned.
Listed(kind, r) ==
    IF ListResult(r).outcome = "ok" THEN [listed EXCEPT ![kind] = r.ents]
    ELSE listed

RefreshSessions ==
    \E r \in Execute(tmux(ListSessionsArgs)) :
        /\ _sessions' = _update_sessions(_sessions, r)
        /\ listed' = Listed("sessions", r)
        /\ last' = [Call("refresh_sessions") EXCEPT
                       !.log = <<Issued(tmux(ListSessionsArgs), r)>>,
                       !.outcome = _list_sessions(r).outcome,
                       !.err = _list_sessions(r).err,
                       !.pre = _sessions]
        /\ UNCHANGED <<conn, _windows, _panes, _clients, TMUX>>

RefreshWindows ==
    \E r \in Execute(tmux(ListWindowsArgs)) :
        /\ _windows' = _update_windows(_windows, r)
        /\ listed' = Listed("windows", r)
        /\ last' = [Call("refresh_windows") EXCEPT
                       !.log = <<Issued(tmux(ListWindowsArgs), r)>>,
                       !.outcome = _list_windows(r).outcome,
                       !.err = _list_windows(r).err,
                       !.pre = _windows]
        /\ UNCHANGED <<conn, _sessions, _panes, _clients, TMUX>>

RefreshPanes ==
    \E r \in Execute(tmux(ListPanesArgs)) :
        /\ _panes' = _update_panes(_panes, r)
        /\ listed' = Listed("panes", r)
        /\ last' = [Call("refresh_panes") EXCEPT
                       !.log = <<Issued(tmux(ListPanesArgs), r)>>,
                       !.outcome = _list_panes(r).outcome,
                       !.err = _list_panes(r).err,
                       !.pre = _panes]
        /\ UNCHANGED <<conn, _sessions, _windows, _clients, TMUX>>

\* ---------------------------------------------------------------- clients

\* A client dict in the collection: the object's identity and its contents.
Obj(id, d) == [id |-> id, d |-> d]

Ids(coll) == {coll[i].id : i \in DOMAIN coll}

\* The i-th identity no object of the collection has.
NthFree(used, i) ==
    CHOOSE n \in 0..(Cardinality(used) + i) :
        n \notin used /\ Cardinality({m \in 0..n : m \notin used}) = i

\* The dicts a poll creates are new objects, distinct from every dict already
\* in the collection.
NewObjects(coll, dicts) ==
    [i \in DOMAIN dicts |-> Obj(NthFree(Ids(coll), i), dicts[i])]

\* d.get('client_tty'); the empty text stands for None, which no stored
\* value can equal.
NoKey == <<>>

TtyOf(d) == IF "client_tty" \in DOMAIN d THEN d["client_tty"] ELSE NoKey

Keys(objs) == {TtyOf(objs[i].d) : i \in DOMAIN objs}

\* {key: client for client in objs}[k]: the last object with that key.
ByKey(objs, k) ==
    objs[CHOOSE i \in DOMAIN objs :
            TtyOf(objs[i].d) = k
            /\ \A j \in (i + 1)..Len(objs) : TtyOf(objs[j].d) # k]

\* dict(set(new.items()) - set(old.items()))
ItemsDiff(new, old) ==
    [k \in {f \in DOMAIN new : f \notin DOMAIN old \/ old[f] # new[f]} |->
        new[k]]

\* d.update(patch)
Update(d, patch) ==
    [k \in DOMAIN d \cup DOMAIN patch |->
        IF k \in DOMAIN patch THEN patch[k] ELSE d[k]]

\* list.remove(x): drops the first element equal to x.
Remove(list, x) ==
    LET i == CHOOSE j \in DOMAIN list :
                 list[j].d = x.d /\ \A k \in 1..(j - 1) : list[k].d # x.d
    IN  SubSeq(list, 1, i - 1) \o SubSeq(list, i + 1, Len(list))

\* UpdateObj putting a patched copy in the object's place.
UpdateObjByCopy(list, s, patch) ==
    [j \in DOMAIN list |->
        IF list[j].id = s.id
        THEN Obj(NthFree(Ids(list), 1), Update(list[j].d, patch))
        ELSE list[j]]

\* s.update(patch) on the object s, wherever the list holds it.
UpdateObj(list, s, patch) ==
    [j \in DOMAIN list |->
        IF list[j].id = s.id THEN Obj(s.id, Update(list[j].d, patch))
        ELSE list[j]]

RECURSIVE SyncLoop(_, _, _, _, _)
\* for s in self._clients: ... with the list changing under the iteration:
\* the loop visits index i of the list as it is at that moment.
SyncLoop(list, i, deleted, intersect, diff) ==
    IF i > Len(list) THEN list
    ELSE LET s == list[i]
             k == TtyOf(s.d)
             l1 == IF k \in deleted THEN Remove(list, s) ELSE list
             l2 == IF k \in intersect THEN UpdateObj(l1, s, diff[k]) ELSE l1
         IN  SyncLoop(l2, i + 1, deleted, intersect, diff)

ListClientsArgs ==
    <<Word("list-clients"), Opt("-F", TabJoinedFormat(CLIENT_FORMATS))>>

\* new_clients of list_clients: the parsed rows, as new objects.
NewClients(coll, r) == NewObjects(coll, ParseRows(r.stdout, CLIENT_FORMATS))

\* Created without the difference: every polled client_tty.
CreatedAll(coll, r) == Keys(NewClients(coll, r))

\* created of list_clients.
Created(coll, r) == Keys(NewClients(coll, r)) \ Keys(coll)

\* The orders in which iterating a set may yield its elements.
Orders(S) ==
    {o \in [1..Cardinality(S) -> S] : \A i, j \in DOMAIN o : i # j => o[i] # o[j]}

\* list_clients, given the response to its list-clients and the order in
\* which the created set is iterated: its outcome and the collection it
\* leaves.
list_clients(coll, r, order) ==
    LET new_clients == NewClients(coll, r)
        keyless == {i \in DOMAIN new_clients :
                       "client_tty" \notin DOMAIN new_clients[i].d}
        created == Keys(new_clients) \ Keys(coll)
        deleted == Keys(coll) \ Keys(new_clients)
        intersect == Keys(new_clients) \cap Keys(coll)
        diff == [k \in intersect |->
                    ItemsDiff(ByKey(new_clients, k).d, ByKey(coll, k).d)]
        kept == SyncLoop(coll, 1, deleted, intersect, diff)
    IN  IF r.raised THEN [outcome |-> "GatewayError", coll |-> coll]
        ELSE IF coll = <<>>
        THEN IF keyless = {}
             THEN [outcome |-> "ok", coll |-> coll \o new_clients]
             ELSE [outcome |-> "KeyError",
                   coll |-> coll \o SubSeq(new_clients, 1,
                       (CHOOSE i \in keyless : \A j \in keyless : i <= j) - 1)]
        ELSE IF keyless # {} THEN [outcome |-> "KeyError", coll |-> coll]
        ELSE [outcome |-> "ok",
              coll |-> kept \o [i \in DOMAIN order |->
                                   ByKey(new_clients, order[i])]]

RefreshClients ==
    \E r \in Execute(tmux(ListClientsArgs)) :
        \E order \in Orders(Created(_clients, r)) :
            LET res == list_clients(_clients, r, order)
            IN  /\ _clients' = res.coll
                /\ listed' = IF r.raised THEN listed
                             ELSE [listed EXCEPT !.clients = r.ents]
                /\ last' = [Call("refresh_clients") EXCEPT
                               !.log = <<Issued(tmux(ListClientsArgs), r)>>,
                               !.outcome = res.outcome,
                               !.pre = _clients]
                /\ UNCHANGED <<conn, _sessions, _windows, _panes, TMUX>>

\* ------------------------------------------------------ session lifecycle

\* The session names and targets the caller passes.
Names == {"dev"}

\* Return that empties the window collection on the way.
ReturnDroppingWindows(sessions, env, lst, call) ==
    /\ _sessions' = sessions
    /\ TMUX' = env
    /\ listed' = lst
    /\ last' = call
    /\ _windows' = <<>>
    /\ UNCHANGED <<conn, _panes, _clients>>

\* The effect of a call on everything it may touch.
Return(sessions, env, lst, call) ==
    /\ _sessions' = sessions
    /\ TMUX' = env
    /\ listed' = lst
    /\ last' = call
    /\ UNCHANGED <<conn, _windows, _panes, _clients>>

HasSessionArgs(target) == <<Word("has-session"), Opt("-t", target)>>

KillSessionArgs(target) == <<Word("kill-session"), Opt("-t", target)>>

\* has_session's answer to the response of its has-session: markers are
\* looked for among the stdout lines.
has_session(r) ==
    IF FailedToConnect \in Range(r.stdout) THEN FALSE
    ELSE IF SessionNotFound \in Range(r.stdout) THEN FALSE
    ELSE TRUE

\* Checked without the look at stderr.
CheckedIgnoringStderr(r) ==
    IF r.raised THEN [outcome |-> "GatewayError", err |-> ""]
    ELSE [outcome |-> "ok", err |-> ""]

\* What a mutating method does with the response to its subcommand.
Checked(r) ==
    IF r.raised THEN [outcome |-> "GatewayError", err |-> ""]
    ELSE IF r.stderr # "" THEN [outcome |-> "Exception", err |-> r.stderr]
    ELSE [outcome |-> "ok", err |-> ""]

kill_session ==
    \E target \in Names \cup {None} :
        LET argv == tmux(KillSessionArgs(target))
            call == [Call("kill_session") EXCEPT !.name = target]
        IN  \E k \in Execute(argv) :
                IF Checked(k).outcome # "ok"
                THEN Return(_sessions, TMUX, listed,
                            [call EXCEPT !.log = <<Issued(argv, k)>>,
                                         !.outcome = Checked(k).outcome,
                                         !.err = Checked(k).err])
                ELSE \E l \in {ListSeen(r) :
                                 r \in Execute(tmux(ListSessionsArgs))} :
                         Return(_update_sessions(_sessions, l), TMUX,
                                Listed("sessions", l),
                                [call EXCEPT
                                    !.log = <<Issued(argv, k),
                                              Issued(tmux(ListSessionsArgs), l)>>,
                                    !.outcome = _list_sessions(l).outcome,
                                    !.err = _list_sessions(l).err])

switch_client ==
    \E target \in Names :
        LET argv == tmux(<<Word("switch-client"), Opt("-t", target)>>)
        IN  \E r \in Execute(argv) :
                Return(_sessions, TMUX, listed,
                       [Call("switch_client") EXCEPT
                           !.name = target,
                           !.log = <<Issued(argv, r)>>,
                           !.outcome = Checked(r).outcome,
                           !.err = Checked(r).err])

\* tmux_args of attach_session
AttachSessionArgs(target) ==
    <<Word("attach-session")>>
        \o (IF Truthy(target) THEN <<Opt("-t", target)>> ELSE <<>>)

attach_session ==
    \E target \in Names \cup {None} :
        LET argv == tmux(AttachSessionArgs(target))
        IN  \E r \in Execute(argv) :
                Return(_sessions, TMUX, listed,
                       [Call("attach_session") EXCEPT
                           !.name = target,
                           !.log = <<Issued(argv, r)>>,
                           !.outcome = Checked(r).outcome,
                           !.err = Checked(r).err])

\* OnExisting that never raises: an existing session is created over.
OnExistingNeverRaising(exists, kill) ==
    IF exists /\ kill THEN "kill" ELSE "create"

\* OnExisting that never kills.
OnExistingNeverKilling(exists, kill) ==
    IF exists /\ ~kill THEN "raise" ELSE "create"

\* new_session's choice once has_session has answered.
OnExisting(exists, kill) ==
    IF exists THEN IF kill THEN "kill" ELSE "raise" ELSE "create"

\* ClearEnv without the del.
ClearEnvKeeping(env) == env

\* os.environ['TMUX'] after: env = os.environ.get('TMUX'); if env: del ...
ClearEnv(env) == IF Truthy(env) THEN None ELSE env

\* os.environ['TMUX'] after: if env: os.environ['TMUX'] = env
RestoreEnv(env, cur) == IF Truthy(env) THEN env ELSE cur

\* tmux_args of new_session, behind the subcommand.
NewSessionArgs(name, attach) ==
    <<Word("new-session"), Opt("-s", name), Flag("-P"),
      Opt("-F", TabJoinedFormat(SESSION_FORMATS))>>
        \o (IF ~attach THEN <<Flag("-d")>> ELSE <<>>)

\* What new_session does with the response to its new-session: the error it
\* raises, or the line it goes on with.
CreateResult(c) ==
    IF Checked(c).outcome # "ok" THEN Checked(c) @@ [line |-> <<>>]
    ELSE IF c.stdout = <<>>
    THEN [outcome |-> "IndexError", err |-> "", line |-> <<>>]
    ELSE [outcome |-> "ok", err |-> "", line |-> c.stdout[1]]

\* The response to new-session as new_session sees it: the row is read only
\* behind the look at stderr.
CreateSeen(c) == IF CreateResult(c).outcome = "ok" THEN c ELSE Unread(c)

\* What new_session takes from the response to its has-session: whether the
\* gateway raised, has_session's answer, and stderr for the log.
Heard(h) ==
    [raised |-> h.raised, stderr |-> h.stderr, exists |-> has_session(h)]

\* session_info of new_session: the record parsed from that line.
SessionInfo(line) == DropEmpty(DictZip(SESSION_FORMATS, Split(line)))

new_session ==
    \E name \in Names, kill \in BOOLEAN, attach \in BOOLEAN :
        LET hasArgv == tmux(HasSessionArgs(name))
            killArgv == tmux(KillSessionArgs(name))
            newArgv == tmux(NewSessionArgs(name, attach))
            listArgv == tmux(ListSessionsArgs)
            call == [Call("new_session") EXCEPT
                        !.name = name, !.kill = kill, !.attach = attach]
        IN
        \E h \in {Heard(r) : r \in Execute(hasArgv)} :
          LET log1 == <<Issued(hasArgv, h)>>
              plan == OnExisting(h.exists, kill)
              call1 == [call EXCEPT !.exists = h.exists,
                                    !.seen = <<TMUX>>]
          IN
          IF h.raised
          THEN Return(_sessions, TMUX, listed,
                      [call EXCEPT !.log = log1, !.seen = <<TMUX>>,
                                   !.outcome = "GatewayError"])
          ELSE IF plan = "raise"
          THEN Return(_sessions, TMUX, listed,
                      [call1 EXCEPT !.log = log1,
                                    !.outcome = "TmuxSessionExists"])
          ELSE
          \E k \in (IF plan = "kill" THEN Execute(killArgv) ELSE {Raised}) :
            LET log2 == IF plan = "kill"
                        THEN Append(log1, Issued(killArgv, k)) ELSE log1
                seen2 == IF plan = "kill" THEN <<TMUX, TMUX>> ELSE <<TMUX>>
                env == TMUX
            IN
            IF plan = "kill" /\ k.raised
            THEN Return(_sessions, TMUX, listed,
                        [call1 EXCEPT !.log = log2, !.seen = seen2,
                                      !.outcome = "GatewayError"])
            ELSE
            \E c \in {CreateSeen(r) : r \in Execute(newArgv)} :
              LET log3 == Append(log2, Issued(newArgv, c))
                  seen3 == Append(seen2, ClearEnv(env))
              IN
              IF CreateResult(c).outcome # "ok"
              THEN Return(_sessions, ClearEnv(env), listed,
                          [call1 EXCEPT !.log = log3, !.seen = seen3,
                                        !.outcome = CreateResult(c).outcome,
                                        !.err = CreateResult(c).err])
              ELSE
              \E l \in {ListSeen(r) : r \in Execute(listArgv)} :
                Return(_update_sessions(_sessions, l),
                       RestoreEnv(env, ClearEnv(env)),
                       Listed("sessions", l),
                       [call1 EXCEPT
                           !.log = Append(log3, Issued(listArgv, l)),
                           !.seen = Append(seen3,
                                           RestoreEnv(env, ClearEnv(env))),
                           !.out = c.stdout,
                           !.ents = c.ents,
                           !.outcome = _list_sessions(l).outcome,
                           !.err = _list_sessions(l).err,
                           !.ret = IF _list_sessions(l).outcome = "ok"
                                   THEN SessionInfo(CreateResult(c).line)
                                   ELSE None])

\* ------------------------------------------------------------ state probes

\* server_exists: both listings inside try/except Exception; what they hold
\* is not looked at.
ServerExists ==
    LET clientsArgv == tmux(<<Word("list-clients")>>)
        sessionsArgv == tmux(<<Word("list-sessions")>>)
        call == Call("server_exists")
    IN
    \E c \in Execute(clientsArgv) :
      LET log1 == <<Issued(clientsArgv, c)>>
      IN
      IF c.raised
      THEN /\ last' = [call EXCEPT !.log = log1, !.ret = Bool(FALSE)]
           /\ UNCHANGED <<conn, _sessions, _windows, _panes, _clients, TMUX,
                          listed>>
      ELSE
      \E s \in Execute(sessionsArgv) :
        /\ last' = [call EXCEPT !.log = Append(log1, Issued(sessionsArgv, s)),
                                !.ret = Bool(~s.raised)]
        /\ UNCHANGED <<conn, _sessions, _windows, _panes, _clients, TMUX,
                       listed>>

\* len() of the gateway's response: the rows of its stdout.
ResponseLen(r) == Len(r.stdout)

\* has_clients' answer to the response of its list-clients.  Off by one.
HasClientsAboveZero(r) == ResponseLen(r) > 0

\* has_clients' answer to the response of its list-clients.
has_clients(r) == ResponseLen(r) > 1

\* has_clients: nothing around the gateway call catches what it raises.
HasClients ==
    LET argv == tmux(<<Word("list-clients")>>)
        call == Call("has_clients")
    IN
    \E r \in Execute(argv) :
      /\ last' = IF r.raised
                 THEN [call EXCEPT !.log = <<Issued(argv, r)>>,
                                   !.outcome = "GatewayError"]
                 ELSE [call EXCEPT !.log = <<Issued(argv, r)>>,
                                   !.out = r.stdout, !.ents = r.ents,
                                   !.ret = Bool(has_clients(r))]
      /\ UNCHANGED <<conn, _sessions, _windows, _panes, _clients, TMUX,
                     listed>>

\* has_session called on its own: nothing around the gateway call catches
\* what it raises.
HasSession ==
    \E target \in Names :
      LET argv == tmux(HasSessionArgs(target))
          call == [Call("has_session") EXCEPT !.name = target]
      IN
      \E r \in Execute(argv) :
        /\ last' = IF r.raised
                   THEN [call EXCEPT !.log = <<Issued(argv, r)>>,
                                     !.outcome = "GatewayError"]
                   ELSE [call EXCEPT !.log = <<Issued(argv, r)>>,
                                     !.out = r.stdout,
                                     !.ret = Bool(has_session(r))]
        /\ UNCHANGED <<conn, _sessions, _windows, _panes, _clients, TMUX,
                       listed>>

\* ------------------------------------------------------------- the start

\* What TMUX may hold when the program starts: unset outside tmux, the
\* enclosing server's socket inside it.
TmuxValues == {None, "/tmp/tmux-0/default,1,0"}

Init ==
    /\ socket_name = None
    /\ socket_path = None
    /\ config_file = None
    /\ _sessions = <<>>
    /\ _windows = <<>>
    /\ _panes = <<>>
    /\ _clients = <<>>
    /\ TMUX \in TmuxValues
    /\ listed = [sessions |-> <<>>, windows |-> <<>>, panes |-> <<>>,
                 clients |-> <<>>]
    /\ last = Call("__init__")

\* What a connection setting may be given as: nothing, the empty text, a
\* value.
SocketNames == {None, "", "work"}

SocketPaths == {None, "", "/tmp/tmux.sock"}

ConfigFiles == {None, "", "~/.tmux.conf"}

\* Server.__init__ with any of socket_name, socket_path, config_file given.
InitConn ==
    /\ socket_name \in SocketNames
    /\ socket_path \in SocketPaths
    /\ config_file \in ConfigFiles
    /\ _sessions = <<>>
    /\ _windows = <<>>
    /\ _panes = <<>>
    /\ _clients = <<>>
    /\ TMUX \in TmuxValues
    /\ listed = [sessions |-> <<>>, windows |-> <<>>, panes |-> <<>>,
                 clients |-> <<>>]
    /\ last = Call("__init__")

\* The stdout lines a listing may consist of, whatever tmux made them from.
Lines == SeqsUpTo({"a", TAB}, MaxLineLen)

\* A server whose next listing prints the one line drawn here.
InitParse ==
    /\ socket_name = None
    /\ socket_path = None
    /\ config_file = None
    /\ _sessions = <<>>
    /\ _windows = <<>>
    /\ _panes = <<>>
    /\ _clients = <<>>
    /\ TMUX \in TmuxValues
    /\ listed = [sessions |-> <<>>, windows |-> <<>>, panes |-> <<>>,
                 clients |-> <<>>]
    /\ \E line \in Lines : last = [Call("__init__") EXCEPT !.out = <<line>>]

\* _update_sessions, _update_windows, _update_panes on that listing.
ParseSessionRows ==
    /\ _sessions' = _update_sessions(_sessions, Returned(<<>>, last.out, ""))
    /\ UNCHANGED <<conn, _windows, _panes, _clients, TMUX, listed, last>>

ParseWindowRows ==
    /\ _windows' = _update_windows(_windows, Returned(<<>>, last.out, ""))
    /\ UNCHANGED <<conn, _sessions, _panes, _clients, TMUX, listed, last>>

ParsePaneRows ==
    /\ _panes' = _update_panes(_panes, Returned(<<>>, last.out, ""))
    /\ UNCHANGED <<conn, _sessions, _windows, _clients, TMUX, listed, last>>

NextParse == ParseSessionRows \/ ParseWindowRows \/ ParsePaneRows

SpecParse == InitParse /\ [][NextParse]_vars

\* The poll of the refresh_clients InitFrame starts behind.
FramePoll ==
    <<[client_tty |-> <<"t", "1">>, client_width |-> <<"8", "0">>],
      [client_tty |-> <<"t", "2">>, client_width |-> <<>>]>>

\* The server right after its first refresh_clients, started outside tmux
\* with two terminals attached.
InitFrame ==
    /\ socket_name = None
    /\ socket_path = None
    /\ config_file = None
    /\ _sessions = <<>>
    /\ _windows = <<>>
    /\ _panes = <<>>
    /\ TMUX = None
    /\ LET argv == tmux(ListClientsArgs)
           r == Returned(FramePoll, Listing(FormatOf(argv), FramePoll), "")
       IN  /\ _clients = list_clients(<<>>, r, <<>>).coll
           /\ listed = [sessions |-> <<>>, windows |-> <<>>, panes |-> <<>>,
                        clients |-> FramePoll]
           /\ last = [Call("refresh_clients") EXCEPT
                          !.log = <<Issued(argv, r)>>]

NextConn == kill_session \/ switch_client \/ attach_session \/ HasSession

SpecConn == InitConn /\ [][NextConn]_vars

NextRefresh == RefreshSessions \/ RefreshWindows \/ RefreshPanes

SpecRefresh == Init /\ [][NextRefresh]_vars

NextFrame == NextRefresh \/ kill_session \/ new_session

SpecFrame == InitFrame /\ [][NextFrame]_vars

SpecClients == Init /\ [][RefreshClients]_vars

NextLifecycle == new_session \/ kill_session \/ switch_client \/ attach_session

SpecLifecycle == Init /\ [][NextLifecycle]_vars

NextProbes == ServerExists \/ HasClients \/ HasSession

SpecProbes == Init /\ [][NextProbes]_vars

Next == NextRefresh \/ RefreshClients \/ NextLifecycle \/ NextProbes

Spec == Init /\ [][Next]_vars

\* ------------------------------------------------------------ properties

\* The record a listed entity should be mirrored as: its non-empty texts for
\* the fields asked for.
Clean(e, fields) ==
    [f \in {g \in Range(fields) : g \in DOMAIN e /\ e[g] # <<>>} |-> e[f]]

Mirror(ents, fields) == [i \in DOMAIN ents |-> Clean(ents[i], fields)]

\* The client_tty values of the latest poll.
PolledKeys == {listed.clients[i].client_tty : i \in DOMAIN listed.clients}

Polled(k) ==
    listed.clients[CHOOSE i \in DOMAIN listed.clients :
                      listed.clients[i].client_tty = k]

RefreshedClients == last.op = "refresh_clients" /\ last.outcome = "ok"

\* C1: a new_session call that issues its create subcommand leaves TMUX, at
\* every exit, with the value it had when the call was entered.
C1_EnvRestoredOnEveryExit ==
    [][(last'.op = "new_session" /\ "new-session" \in Range(Cmds(last'.log)))
          => TMUX' = TMUX]_vars

\* C2: after refresh_clients completes, the client_tty keys of the collection
\* are exactly the keys of the poll.
C2_KeysEqualPoll == RefreshedClients => Keys(_clients) = PolledKeys

\* C3: after refresh_clients completes, every record whose client_tty was in
\* the collection before and is in the poll holds exactly the polled
\* attribute/value pairs.
C3_CommonRecordsMatchPoll ==
    RefreshedClients =>
        \A i \in DOMAIN _clients :
            LET k == TtyOf(_clients[i].d)
            IN  (k \in Keys(last.pre) /\ k \in PolledKeys)
                    => _clients[i].d = Clean(Polled(k), CLIENT_FORMATS)

C5_CollectionsMirrorLatestListing ==
    /\ _sessions = Mirror(listed.sessions, SESSION_FORMATS)
    /\ _windows = Mirror(listed.windows, WFormats)
    /\ _panes = Mirror(listed.panes, PFormats)

\* C5 witness: a refresh_sessions replaced a non-empty collection by the
\* records of a different listing, with windows and panes mirrored too.
C5_Witness ==
    /\ last.op = "refresh_sessions" /\ last.outcome = "ok"
    /\ last.pre # <<>> /\ _sessions # last.pre
    /\ \A i \in DOMAIN _sessions : _sessions[i] \notin Range(last.pre)
    /\ _windows # <<>> /\ _panes # <<>>

C7_KillBeforeCreate ==
    last.op = "new_session" =>
        /\ (last.kill /\ last.exists) =>
              /\ Len(last.log) >= 2
              /\ last.log[2].cmd = "kill-session"
              /\ OptVal(last.log[2].argv, "-t") = last.name
              /\ \A i \in DOMAIN last.log :
                     last.log[i].cmd = "new-session" => i > 2
              /\ last.outcome # "TmuxSessionExists"
        /\ "kill-session" \in Range(Cmds(last.log)) => (last.kill /\ last.exists)

\* C7 witness: a call that killed, created and refreshed.
C7_Witness ==
    /\ last.op = "new_session" /\ last.kill /\ last.exists
    /\ Cmds(last.log) =
           <<"has-session", "kill-session", "new-session", "list-sessions">>
    /\ last.outcome = "ok"

Mutating == {"kill-session", "switch-client", "attach-session", "new-session"}

\* C8: a mutating subcommand that returns text on stderr makes the call
\* raise an error carrying that text; it is the call's last subcommand and
\* was issued once.
C8_MutatingStderrRaises ==
    \A i \in DOMAIN last.log :
        (last.log[i].cmd \in Mutating /\ ~last.log[i].raised
         /\ last.log[i].stderr # "")
            => /\ last.outcome = "Exception"
               /\ last.err = last.log[i].stderr
               /\ i = Len(last.log)
               /\ Cardinality({j \in DOMAIN last.log :
                                  last.log[j].cmd = last.log[i].cmd}) = 1

Refreshes ==
    {"refresh_sessions", "refresh_windows", "refresh_panes", "refresh_clients"}

\* The collection a refresh is about.
CollectionOf(op) ==
    CASE op = "refresh_sessions" -> _sessions
      [] op = "refresh_windows" -> _windows
      [] op = "refresh_panes" -> _panes
      [] op = "refresh_clients" -> _clients

\* C9: a refresh whose list subcommand returns text on stderr raises an
\* error and leaves its collection as it was.
C9_RefreshStderrRaises ==
    (last.op \in Refreshes /\ ~last.log[1].raised /\ last.log[1].stderr # "")
        => /\ last.outcome = "Exception"
           /\ CollectionOf(last.op) = last.pre

\* C10: kill_session raises on a kill-session that returns text on stderr,
\* then issues no list-sessions and leaves the session collection alone; after
\* a kill-session without it, a list-sessions follows, and on return the
\* session collection mirrors that listing.
C10_KillThenRefresh ==
    [][last'.op = "kill_session" =>
          /\ last'.log[1].cmd = "kill-session"
          /\ (~last'.log[1].raised /\ last'.log[1].stderr # "")
                => /\ last'.outcome = "Exception"
                   /\ last'.err = last'.log[1].stderr
                   /\ Len(last'.log) = 1
                   /\ _sessions' = _sessions
          /\ (~last'.log[1].raised /\ last'.log[1].stderr = "")
                => Cmds(last'.log) = <<"kill-session", "list-sessions">>
          /\ last'.outcome = "ok"
                => /\ Cmds(last'.log) = <<"kill-session", "list-sessions">>
                   /\ last'.log[2].stderr = ""
                   /\ _sessions' = Mirror(listed'.sessions, SESSION_FORMATS)]_vars

\* C10 witness: a kill_session has returned over a refreshed, non-empty
\* session collection.
C10_Witness ==
    /\ last.op = "kill_session" /\ last.outcome = "ok"
    /\ Cmds(last.log) = <<"kill-session", "list-sessions">>
    /\ _sessions # <<>>

Probes == {"server_exists", "has_session", "has_clients"}

Failed(entry) == entry.raised \/ entry.stderr # ""

\* C11: a state probe never raises and returns a boolean, whatever its
\* subcommand did (the gateway raised, stderr was not empty, or neither), and
\* server_exists returns False whenever one of its subcommands failed.
C11_ProbesNeverRaise ==
    last.op \in Probes =>
        /\ last.outcome = "ok"
        /\ last.ret \in {Bool(TRUE), Bool(FALSE)}
        /\ (last.op = "server_exists"
              /\ \E i \in DOMAIN last.log : Failed(last.log[i]))
                 => last.ret = Bool(FALSE)

IsSubstring(m, text) ==
    \E i \in 0..(Len(text) - Len(m)) : SubSeq(text, i + 1, i + Len(m)) = m

\* The text of the response to the probe's has-session holds the marker m,
\* in a line of stdout or on stderr.
InResponse(m) ==
    \/ \E i \in DOMAIN last.out : IsSubstring(m, last.out[i])
    \/ IsSubstring(m, Chars(last.log[1].stderr))

\* C12: has_session returns False when the response to its has-session
\* holds "session not found" or "failed to connect to server" anywhere, on
\* stdout or on stderr, and True otherwise.
C12_HasSessionReadsMarkers ==
    (last.op = "has_session" /\ last.outcome = "ok") =>
        last.ret =
            Bool(~(InResponse(SessionNotFound) \/ InResponse(FailedToConnect)))

\* C13: a new_session that succeeded issued, in this order, the has-session,
\* a kill-session if the session was reported, one new-session with TMUX
\* cleared, and one list-sessions with TMUX back; what it returns is the
\* record of the session in the first line the new-session printed; and the
\* session collection holds the records of that list-sessions.
C13_NewSessionSequence ==
    (last.op = "new_session" /\ last.outcome = "ok") =>
        LET n == Len(last.log)
        IN
        /\ Cmds(last.log) =
              <<"has-session">>
                  \o (IF last.exists THEN <<"kill-session">> ELSE <<>>)
                  \o <<"new-session", "list-sessions">>
        /\ Len(last.seen) = n
        /\ \A i \in 1..(n - 2) : last.seen[i] = TMUX
        /\ last.seen[n - 1] = None
        /\ last.seen[n] = TMUX
        /\ last.ents # <<>>
        /\ last.ret = Clean(last.ents[1], SESSION_FORMATS)
        /\ _sessions = Mirror(listed.sessions, SESSION_FORMATS)

\* C13 witness: a new_session succeeded inside tmux after killing the
\* reported session, and the listing shows a session.
C13_Witness ==
    /\ last.op = "new_session" /\ last.outcome = "ok"
    /\ last.exists /\ Truthy(TMUX)
    /\ _sessions # <<>>

NoEmptyValue(d) == \A k \in DOMAIN d : d[k] # <<>>

C15_ClientKeysDistinct ==
    \A i, j \in DOMAIN _clients :
        i # j => TtyOf(_clients[i].d) # TtyOf(_clients[j].d)

\* C15 witness: a refresh added a record for a new terminal behind a record
\* it kept.
C15_Witness ==
    /\ RefreshedClients
    /\ Len(_clients) = 2 /\ Len(last.pre) >= 1
    /\ _clients[1].id \in Ids(last.pre)
    /\ _clients[2].id \notin Ids(last.pre)

\* The flags of the settings that are given, in the order -f, -S, -L.
ConnFlags ==
    (IF Truthy(config_file) THEN <<Opt("-f", config_file)>> ELSE <<>>)
        \o (IF Truthy(socket_path) THEN <<Opt("-S", socket_path)>> ELSE <<>>)
        \o (IF Truthy(socket_name) THEN <<Opt("-L", socket_name)>> ELSE <<>>)

\* The subcommand and arguments the method of the latest call handed to
\* Server.tmux for the logged command cmd.
HandedOver(cmd) ==
    CASE cmd = "kill-session" -> KillSessionArgs(last.name)
      [] cmd = "list-sessions" -> ListSessionsArgs
      [] cmd = "switch-client" ->
            <<Word("switch-client"), Opt("-t", last.name)>>
      [] cmd = "attach-session" -> AttachSessionArgs(last.name)
      [] OTHER -> HasSessionArgs(last.name)

\* C16: whichever of config file, socket path and socket name are given,
\* the argument list that reaches the gateway is the config-file flag, the
\* socket-path flag, the socket-name flag, each only when its setting is
\* given, and then the subcommand and its arguments in the caller's order.
C16_ConnectionFlagsLead ==
    \A i \in DOMAIN last.log :
        last.log[i].argv = ConnFlags \o HandedOver(last.log[i].cmd)

\* C16 witness: a subcommand went out with all three settings given.
C16_Witness ==
    /\ Truthy(config_file) /\ Truthy(socket_path) /\ Truthy(socket_name)
    /\ last.op = "attach_session"
    /\ Len(last.log) = 1
    /\ Len(last.log[1].argv) = 3 + Len(AttachSessionArgs(last.name))

\* Where the tabs of a line are, and where its i-th tab is; the line's start
\* and end stand for the tabs before its first and behind its last token.
TabsAt(line) == {j \in DOMAIN line : line[j] = TAB}

NTokens(line) == Cardinality(TabsAt(line)) + 1

TabNo(line, i) ==
    IF i = 0 THEN 0
    ELSE IF i = NTokens(line) THEN Len(line) + 1
    ELSE CHOOSE j \in TabsAt(line) :
             Cardinality({k \in TabsAt(line) : k <= j}) = i

\* The i-th tab-separated token of a line.
Token(line, i) == SubSeq(line, TabNo(line, i - 1) + 1, TabNo(line, i) - 1)

\* The record gives the i-th field the i-th token, for every position both
\* have, and has nothing for an empty token or beyond.
Positional(rec, line, fields) ==
    /\ DOMAIN rec \subseteq Range(fields)
    /\ \A i \in DOMAIN fields :
           IF i <= NTokens(line) /\ Token(line, i) # <<>>
           THEN fields[i] \in DOMAIN rec /\ rec[fields[i]] = Token(line, i)
           ELSE fields[i] \notin DOMAIN rec

\* C17: the record parsed from an output line gives the i-th field the i-th
\* tab-separated token, for each position within both, and leaves empty
\* tokens out; for session, window and pane rows alike, pane rows with a tab
\* behind every field included.
C17_RecordIsPositional ==
    /\ \A i \in DOMAIN _sessions :
           Positional(_sessions[i], last.out[i], SESSION_FORMATS)
    /\ \A i \in DOMAIN _windows :
           Positional(_windows[i], last.out[i], WFormats)
    /\ \A i \in DOMAIN _panes :
           Positional(_panes[i], last.out[i], PFormats)

\* C17 witness: a pane row with a tab behind each of its five fields, the
\* last field alone not empty, was parsed next to a session and a window row.
C17_Witness ==
    /\ last.out = <<<<TAB, TAB, TAB, TAB, "a", TAB>>>>
    /\ _panes = <<[pane_id |-> <<"a">>]>>
    /\ _sessions # <<>> /\ _windows # <<>>

C19_RefreshClientsIdempotent ==
    [][(RefreshedClients
          /\ last'.op = "refresh_clients" /\ last'.outcome = "ok"
          /\ listed'.clients = listed.clients)
         => _clients' = _clients]_vars

\* C20: refresh_sessions leaves the window, pane and client collections as
\* they are, refresh_windows the session, pane and client collections,
\* refresh_panes the session, window and client collections; kill_session
\* and new_session change no collection but the session collection.
C20_FrameOfCollections ==
    [][/\ last'.op \in {"refresh_sessions", "kill_session", "new_session"}
          => UNCHANGED <<_windows, _panes, _clients>>
       /\ last'.op = "refresh_windows"
          => UNCHANGED <<_sessions, _panes, _clients>>
       /\ last'.op = "refresh_panes"
          => UNCHANGED <<_sessions, _windows, _clients>>]_vars

\* C20 witness: new_session changed the session collection next to windows,
\* panes and clients that are there.
C20_Witness ==
    /\ last.op = "new_session" /\ last.outcome = "ok"
    /\ _sessions # <<>>
    /\ _windows # <<>> /\ _panes # <<>> /\ Len(_clients) = 2
====
